---- MODULE Spec2Model ----
(***************************************************************************)
(* Model of marsutils.controlmanager: ControlManager, the dashboard        *)
(* chooser it fills in __init__, the selection callback                    *)
(* control_mode_changed and the periodic forwarder teleopPeriodic.         *)
(* The class decorators with_ctrl_manager and provide_setup are modelled   *)
(* by the robotInit and teleopPeriodic they install on a robot class.      *)
(*                                                                         *)
(* A control interface object is identified by its position in the         *)
(* argument tuple given to __init__ (1..Len(interfaces)); the objects are   *)
(* distinct instances, compared by identity as Python's default != does.   *)
(***************************************************************************)
EXTENDS Integers, Sequences, FiniteSets, TLC

VARIABLES
    interfaces,          \* the *interfaces argument tuple of __init__
    pc,                  \* "new" | "ready" | "failed" : position of the object's life
    control_mode,        \* self.control_mode: NoMode or an interface object
    control_interfaces,  \* self.control_interfaces: list of interface objects
    control_chooser,     \* the addDefault/addObject registrations, in call order
    log,                 \* logger.error records emitted by the last operation
    calls,               \* hook calls made by the last operation, in order
    life,                \* per interface object: what its lifecycle hooks have seen
    raised,              \* exception the last operation ended with, or "none"
    op,                  \* the last operation called and its input
    raising,             \* the hook calls that raise, a property of the interface objects
    klass,               \* the robot class given to the decorators, if there is one
    robot_pc,            \* "none" | "declared" | "inited" | "failed" : the robot object
    events,              \* the last robot method called and what it ran, in order
    threads              \* where the listener thread and the control loop stand

(* the manager and the interface objects it drives *)
mvars == <<interfaces, pc, control_mode, control_interfaces, control_chooser,
           log, calls, life, raised, op, raising>>

(* the callers: the robot object of a decorated class, and the two        *)
(* threads when the calls are followed statement by statement              *)
rvars == <<klass, robot_pc, events, threads>>

vars == <<mvars, rvars>>

----------------------------------------------------------------------------
(* Bounds *)

MaxModes == 3

MaxSort == 2

MaxRaising == 1

MaxMembers == 2

(* self.control_mode = None *)
NoMode == 0

(* ControlInterface._SORT default *)
DefaultSort == 0

----------------------------------------------------------------------------
(* Interface objects: the class attributes the manager reads *)

(* _DISPLAY_NAME is only annotated on the base class: absent unless a      *)
(* subclass sets it; it may be set to a non-str value, or to any str.      *)
NoName == [has |-> FALSE, isstr |-> FALSE, text |-> ""]

NonStrName == [has |-> TRUE, isstr |-> FALSE, text |-> ""]

StrName(t) == [has |-> TRUE, isstr |-> TRUE, text |-> t]

DisplayNames == {NoName, NonStrName, StrName(""), StrName("Drive")}

ControlInterface == [sort : 0..MaxSort, name : DisplayNames]

SeqsUpTo(S, n) == UNION {[1..k -> S] : k \in 0..n}

(* every argument tuple within the bounds *)
AllInputs == SeqsUpTo(ControlInterface, MaxModes)

(* argument tuples of interfaces that keep the default _SORT *)
DefaultSortInputs ==
    SeqsUpTo([sort : {DefaultSort}, name : {NoName, StrName("Drive")}], MaxModes)

hasattr_DISPLAY_NAME(mode) == interfaces[mode].name.has

isinstance_str(mode) == interfaces[mode].name.isstr

_DISPLAY_NAME(mode) == interfaces[mode].name.text

_SORT(mode) == interfaces[mode].sort

----------------------------------------------------------------------------
(* sorted(interfaces, key=lambda x: x._SORT, reverse=True): a stable sort, *)
(* descending by key, equal keys keeping their argument order.             *)

(* equal keys end up in reverse argument order *)
InsertUnstable(s, x, key) ==
    LET k == Cardinality({j \in 1..Len(s) : key[s[j]] > key[x]})
    IN  SubSeq(s, 1, k) \o <<x>> \o SubSeq(s, k + 1, Len(s))

(* x goes behind every element whose key is at least its own *)
Insert(s, x, key) ==
    LET k == Cardinality({j \in 1..Len(s) : key[s[j]] >= key[x]})
    IN  SubSeq(s, 1, k) \o <<x>> \o SubSeq(s, k + 1, Len(s))

(* the positions 1..n of the tuple whose keys are `key`, sorted *)
RECURSIVE sorted_upto(_, _)
sorted_upto(key, n) ==
    IF n = 0 THEN <<>> ELSE Insert(sorted_upto(key, n - 1), n, key)

sorted_reverse(key) == sorted_upto(key, Len(key))

sorted_interfaces == sorted_reverse([m \in 1..Len(interfaces) |-> _SORT(m)])

----------------------------------------------------------------------------
(* Hook calls and what an interface object sees of them *)

Call(mode, hook) == [mode |-> mode, hook |-> hook]

(* enabled()/disabled() must alternate, enabled() first; anything else is  *)
(* remembered as "misordered".                                             *)
AfterHook(state, hook) ==
    IF state = "misordered" THEN "misordered"
    ELSE IF hook = "enabled"
         THEN (IF state \in {"never", "disabled"} THEN "enabled" ELSE "misordered")
    ELSE IF hook = "disabled"
         THEN (IF state = "enabled" THEN "disabled" ELSE "misordered")
    ELSE state

RECURSIVE AfterCalls(_, _)
AfterCalls(l, cs) ==
    IF cs = <<>> THEN l
    ELSE AfterCalls([l EXCEPT ![cs[1].mode] = AfterHook(@, cs[1].hook)], Tail(cs))

(* A hook is user code: it may raise, and the manager catches nothing, so  *)
(* the statements behind a raising call are not run.                       *)
Hooks == {"teleopPeriodic", "enabled", "disabled"}

HookCalls == {Call(m, h) : m \in 1..Len(interfaces), h \in Hooks}

RaisingSets == {r \in SUBSET HookCalls : Cardinality(r) <= MaxRaising}

(* the calls of cs that are made: all of them up to the first that raises *)
RECURSIVE Performed(_)
Performed(cs) ==
    IF cs = <<>> THEN <<>>
    ELSE IF cs[1] \in raising THEN <<cs[1]>>
    ELSE <<cs[1]>> \o Performed(Tail(cs))

(* what the caller of the operation sees *)
Propagated(cs) ==
    IF \E j \in 1..Len(cs) : cs[j] \in raising THEN "HookError" ELSE "none"

----------------------------------------------------------------------------
(* ControlManager.__init__ *)

(* the state before the constructor runs; the hooks have seen nothing *)
Unconstructed(inputs) ==
    /\ interfaces \in inputs
    /\ pc = "new"
    /\ control_mode = NoMode
    /\ control_interfaces = <<>>
    /\ control_chooser = <<>>
    /\ log = <<>>
    /\ calls = <<>>
    /\ life = [m \in 1..Len(interfaces) |-> "never"]
    /\ raised = "none"
    /\ op = [name |-> "none", isNone |-> TRUE, id |-> 0, prev |-> NoMode]

(* only the hasattr test: a non-string _DISPLAY_NAME is let through *)
ValidationErrorsAttrOnly(mode) ==
    IF ~hasattr_DISPLAY_NAME(mode) THEN <<[msg |-> "has no _DISPLAY_NAME", mode |-> mode]>>
    ELSE <<>>

(* logger.error of the two validation branches of the loop, <<>> when the  *)
(* mode passes both                                                        *)
ValidationErrors(mode) ==
    IF ~hasattr_DISPLAY_NAME(mode) THEN <<[msg |-> "has no _DISPLAY_NAME", mode |-> mode]>>
    ELSE IF ~isinstance_str(mode) THEN <<[msg |-> "non-string _DISPLAY_NAME", mode |-> mode]>>
    ELSE <<>>

(* "Make the first entry the default": i is the enumerate() index *)
ChooserEntry(i, mode) ==
    IF i = 0
    THEN [call |-> "addDefault", label |-> _DISPLAY_NAME(mode), id |-> i]
    ELSE [call |-> "addObject", label |-> _DISPLAY_NAME(mode), id |-> i]

(* one iteration of `for i, mode in enumerate(interfaces)` on the loop     *)
(* state st = [ci, chooser, log]                                           *)
LoopBody(st, i, mode) ==
    IF ValidationErrors(mode) # <<>>
    THEN [st EXCEPT !.log = @ \o ValidationErrors(mode)]
    ELSE [st EXCEPT !.ci = Append(@, mode),
                    !.chooser = Append(@, ChooserEntry(i, mode))]

(* the loop over the first n entries of the sorted tuple *)
RECURSIVE Loop(_, _)
Loop(srt, n) ==
    IF n = 0 THEN [ci |-> <<>>, chooser |-> <<>>, log |-> <<>>]
    ELSE LoopBody(Loop(srt, n - 1), n - 1, srt[n])

(* assert len(interfaces) > 0 *)
AssertNonEmpty == Len(interfaces) > 0

ControlManager_init ==
    /\ pc = "new"
    /\ op' = [name |-> "__init__", isNone |-> TRUE, id |-> 0, prev |-> NoMode]
    /\ calls' = <<>>
    /\ UNCHANGED <<interfaces, life, raising>>
    /\ IF ~AssertNonEmpty
       THEN /\ pc' = "failed"
            /\ raised' = "AssertionError"
            /\ UNCHANGED <<control_mode, control_interfaces, control_chooser, log>>
       ELSE LET st == Loop(sorted_interfaces, Len(sorted_interfaces))
            IN  /\ pc' = "ready"
                /\ raised' = "none"
                /\ control_mode' = NoMode
                /\ control_interfaces' = st.ci
                /\ control_chooser' = st.chooser
                /\ log' = st.log

----------------------------------------------------------------------------
(* ControlManager.teleopPeriodic *)

(* forwards to the first interface while nothing is selected *)
TickCallsDefault ==
    IF control_mode # NoMode THEN <<Call(control_mode, "teleopPeriodic")>>
    ELSE IF control_interfaces # <<>>
         THEN <<Call(control_interfaces[1], "teleopPeriodic")>>
    ELSE <<>>

(* forwards to every registered interface *)
TickCallsAll ==
    [j \in 1..Len(control_interfaces) |-> Call(control_interfaces[j], "teleopPeriodic")]

TickCalls ==
    IF control_mode # NoMode THEN <<Call(control_mode, "teleopPeriodic")>> ELSE <<>>

teleopPeriodic ==
    /\ pc = "ready"
    /\ op' = [name |-> "teleopPeriodic", isNone |-> TRUE, id |-> 0, prev |-> control_mode]
    /\ calls' = TickCalls
    /\ life' = AfterCalls(life, calls')
    /\ log' = <<>>
    /\ raised' = Propagated(TickCalls)
    /\ UNCHANGED <<interfaces, pc, control_mode, control_interfaces, control_chooser,
                   raising>>

----------------------------------------------------------------------------
(* ControlManager.control_mode_changed *)

(* what control_chooser.getSelected() may hand back: None or an int *)
SelIds == (0 - (MaxModes + 1))..(MaxModes + 1)

Selections ==
    {[isNone |-> TRUE, id |-> 0]} \cup {[isNone |-> FALSE, id |-> i] : i \in SelIds}

(* the None test is missing *)
ReturnsOnNoneNever(sel) == FALSE

(* if new_selected is None: return *)
ReturnsOnNone(sel) == sel.isNone

(* if new_selected >= len(self.control_interfaces) *)
RejectedAsInvalid(new_selected) == new_selected >= Len(control_interfaces)

(* self.control_interfaces[new_selected]: Python list indexing, which      *)
(* counts a negative index from the end and raises IndexError beyond it    *)
IndexInRange(k) ==
    /\ k < Len(control_interfaces)
    /\ k >= 0 - Len(control_interfaces)

Subscript(k) ==
    IF k >= 0 THEN control_interfaces[k + 1]
    ELSE control_interfaces[Len(control_interfaces) + k + 1]

(* enabled() of the new mode before disabled() of the old one *)
TransitionCallsEnterFirst(old, new) ==
    IF old # new
    THEN (IF new # NoMode THEN <<Call(new, "enabled")>> ELSE <<>>)
         \o (IF old # NoMode THEN <<Call(old, "disabled")>> ELSE <<>>)
    ELSE <<>>

(* no test that the selection differs from the active mode *)
TransitionCallsAlways(old, new) ==
    (IF old # NoMode THEN <<Call(old, "disabled")>> ELSE <<>>)
    \o (IF new # NoMode THEN <<Call(new, "enabled")>> ELSE <<>>)

(* the old mode is never told it was left *)
TransitionCallsNoExit(old, new) ==
    IF old # new
    THEN (IF new # NoMode THEN <<Call(new, "enabled")>> ELSE <<>>)
    ELSE <<>>

(* the hooks the transition block runs, in order *)
TransitionCalls(old, new) ==
    IF old # new
    THEN (IF old # NoMode THEN <<Call(old, "disabled")>> ELSE <<>>)
         \o (IF new # NoMode THEN <<Call(new, "enabled")>> ELSE <<>>)
    ELSE <<>>

(* selecting the active mode again clears it *)
ModeAfterToggle(old, new) == IF old # new THEN new ELSE NoMode

(* self.control_mode after the transition block *)
ModeAfter(old, new) == IF old # new THEN new ELSE old

(* the assignment of line 112 is made only when enabled() has returned *)
AssignmentAfterEnter(old, new) ==
    \A j \in 1..Len(TransitionCalls(old, new)) :
        TransitionCalls(old, new)[j] \notin raising

(* the assignment of line 112 is reached unless the old mode's disabled()  *)
(* (line 111) raised before it                                             *)
AssignmentReached(old, new) ==
    ~(old # new /\ old # NoMode /\ Call(old, "disabled") \in raising)

control_mode_changed(sel) ==
    /\ pc = "ready"
    /\ op' = [name |-> "control_mode_changed", isNone |-> sel.isNone, id |-> sel.id,
              prev |-> control_mode]
    /\ UNCHANGED <<interfaces, pc, control_interfaces, control_chooser, raising>>
    /\ IF ReturnsOnNone(sel)
       THEN /\ calls' = <<>>
            /\ log' = <<>>
            /\ raised' = "none"
            /\ UNCHANGED <<control_mode, life>>
       ELSE IF RejectedAsInvalid(sel.id)
       THEN /\ calls' = <<>>
            /\ log' = <<[msg |-> "Invalid control mode", mode |-> sel.id]>>
            /\ raised' = "none"
            /\ UNCHANGED <<control_mode, life>>
       ELSE IF ~IndexInRange(sel.id)
       THEN /\ calls' = <<>>
            /\ log' = <<>>
            /\ raised' = "IndexError"
            /\ UNCHANGED <<control_mode, life>>
       ELSE /\ calls' = Performed(TransitionCalls(control_mode, Subscript(sel.id)))
            /\ control_mode' = IF AssignmentReached(control_mode, Subscript(sel.id))
                               THEN ModeAfter(control_mode, Subscript(sel.id))
                               ELSE control_mode
            /\ life' = AfterCalls(life, calls')
            /\ log' = <<>>
            /\ raised' = Propagated(calls')

----------------------------------------------------------------------------
(* Event functions called on the manager *)

(* the event functions the class docstring says are forwarded *)
EventFunctions == {"teleopPeriodic", "teleopInit"}

(* the event functions the class defines; __slots__ names four data        *)
(* attributes and there is no __getattr__, so any other name is an         *)
(* AttributeError                                                          *)
DefinedEvents == {"teleopPeriodic"}

event(name) ==
    IF name \in DefinedEvents
    THEN teleopPeriodic
    ELSE /\ pc = "ready"
         /\ op' = [name |-> name, isNone |-> TRUE, id |-> 0, prev |-> control_mode]
         /\ calls' = <<>>
         /\ log' = <<>>
         /\ raised' = "AttributeError"
         /\ UNCHANGED <<interfaces, control_mode, control_interfaces, control_chooser,
                        life, pc, raising>>

----------------------------------------------------------------------------
(* with_ctrl_manager and provide_setup: decorators of a robot class *)

Decorations ==
    { <<"with_ctrl_manager">>, <<"provide_setup">>,
      <<"with_ctrl_manager", "provide_setup">>,
      <<"provide_setup", "with_ctrl_manager">> }

(* an attribute of the robot object as dir() and getattr() show it once    *)
(* the class's own robotInit has run: whether its name starts with "_",    *)
(* whether the class holds a property under that name, what it evaluates   *)
(* to, and, for an interface, whether its class sets _DISPLAY_NAME         *)
Members ==
    [underscore : BOOLEAN, isproperty : BOOLEAN,
     value : {"None", "other"}, named : {FALSE}]
    \cup [underscore : BOOLEAN, isproperty : BOOLEAN,
          value : {"interface"}, named : BOOLEAN]

(* where setup() is defined: on the class, on the instance only, nowhere   *)
RobotClasses ==
    [decorators : Decorations, setup : {"class", "instance", "none"},
     members : SeqsUpTo(Members, MaxMembers)]

(* the scan of robotInit: names with "_" and properties are skipped, then  *)
(* None values, then objects that are no ControlInterface                  *)
IsComponent(mem) ==
    /\ ~(mem.underscore \/ mem.isproperty)
    /\ mem.value # "None"
    /\ mem.value = "interface"

InterfaceOf(mem) ==
    [sort |-> DefaultSort, name |-> IF mem.named THEN StrName("Drive") ELSE NoName]

(* components, in dir() order, as the argument tuple of ControlManager     *)
Components(members) ==
    LET found == SelectSeq(members, IsComponent)
    IN  [j \in 1..Len(found) |-> InterfaceOf(found[j])]

(* setup() is looked up on the instance *)
HasSetupOnInstance == klass.setup \in {"class", "instance"}

(* hasattr(klass, "setup") *)
HasSetup == klass.setup = "class"

(* what the robotInit left by the first n decorators runs: the trace,      *)
(* whether it returned, whether it built the ControlManager                *)
RECURSIVE RobotInitRun(_)
RobotInitRun(n) ==
    IF n = 0
    THEN [trace |-> <<"robotInit">>, returned |-> TRUE, built |-> FALSE]
    ELSE LET old == RobotInitRun(n - 1)
         IN  IF ~old.returned THEN old
             ELSE IF klass.decorators[n] = "with_ctrl_manager"
             THEN IF Len(Components(klass.members)) > 0
                  THEN [old EXCEPT !.trace = Append(@, "ControlManager"),
                                   !.built = TRUE]
                  ELSE [old EXCEPT !.trace = Append(@, "AssertionError"),
                                   !.returned = FALSE]
             ELSE IF HasSetup
                  THEN [old EXCEPT !.trace = Append(@, "setup")]
                  ELSE [old EXCEPT !.trace = Append(@, "logger.warning")]

Robot_robotInit ==
    /\ robot_pc = "declared"
    /\ LET run == RobotInitRun(Len(klass.decorators))
       IN  /\ events' = [op |-> "robotInit", trace |-> run.trace]
           /\ robot_pc' = IF run.returned THEN "inited" ELSE "failed"
           /\ IF run.built THEN ControlManager_init ELSE UNCHANGED mvars
    /\ UNCHANGED <<klass, threads>>

(* the class's own teleopPeriodic first, the manager after it *)
TeleopTraceOriginalFirst(managerRaised) ==
    <<"teleopPeriodic", "ControlManager.teleopPeriodic">>

(* the manager's tick, then the class's own teleopPeriodic unless the tick *)
(* raised                                                                  *)
TeleopTrace(managerRaised) ==
    <<"ControlManager.teleopPeriodic">>
    \o (IF managerRaised = "none" THEN <<"teleopPeriodic">> ELSE <<>>)

Robot_teleopPeriodic ==
    /\ robot_pc = "inited"
    /\ IF \E j \in 1..Len(klass.decorators) : klass.decorators[j] = "with_ctrl_manager"
       THEN /\ teleopPeriodic
            /\ events' = [op |-> "teleopPeriodic", trace |-> TeleopTrace(raised')]
       ELSE /\ events' = [op |-> "teleopPeriodic", trace |-> <<"teleopPeriodic">>]
            /\ UNCHANGED mvars
    /\ UNCHANGED <<klass, robot_pc, threads>>

(* the chooser's listener calls the manager, not the robot *)
Robot_control_mode_changed(sel) ==
    /\ robot_pc = "inited"
    /\ control_mode_changed(sel)
    /\ events' = [op |-> "control_mode_changed", trace |-> <<>>]
    /\ UNCHANGED <<klass, robot_pc, threads>>

----------------------------------------------------------------------------
(* control_mode_changed on the listener thread of ChooserControl and       *)
(* teleopPeriodic on the control loop, one statement at a time             *)

(* neither function is being run; no tick has been forwarded *)
NoCall ==
    [listener |-> [pc |-> "idle", new_selected |-> 0],
     periodic |-> "idle",
     tick     |-> [mode |-> NoMode, life |-> "none", onNone |-> FALSE]]

ListenerOp == [name |-> "control_mode_changed", isNone |-> FALSE,
               id |-> threads.listener.new_selected, prev |-> control_mode]

ListenerAt(position) ==
    [threads EXCEPT !.listener.pc = position]

(* lines 103-108: getSelected() and the two early returns *)
Listener_getSelected(sel) ==
    /\ pc = "ready"
    /\ threads.listener.pc = "idle"
    /\ op' = [name |-> "control_mode_changed", isNone |-> sel.isNone, id |-> sel.id,
              prev |-> control_mode]
    /\ calls' = <<>>
    /\ raised' = "none"
    /\ IF ReturnsOnNone(sel)
       THEN /\ log' = <<>>
            /\ UNCHANGED threads
       ELSE IF RejectedAsInvalid(sel.id)
       THEN /\ log' = <<[msg |-> "Invalid control mode", mode |-> sel.id]>>
            /\ UNCHANGED threads
       ELSE /\ log' = <<>>
            /\ threads' = [threads EXCEPT !.listener =
                                [pc |-> "compare", new_selected |-> sel.id]]
    /\ UNCHANGED <<interfaces, pc, control_mode, control_interfaces, control_chooser,
                   life, raising, klass, robot_pc, events>>

(* line 109: the subscript and the != test *)
Listener_compare ==
    /\ threads.listener.pc = "compare"
    /\ op' = ListenerOp
    /\ calls' = <<>>
    /\ log' = <<>>
    /\ IF ~IndexInRange(threads.listener.new_selected)
       THEN /\ raised' = "IndexError"
            /\ threads' = ListenerAt("idle")
       ELSE /\ raised' = "none"
            /\ threads' = ListenerAt(
                    IF control_mode # Subscript(threads.listener.new_selected)
                    THEN "exit" ELSE "idle")
    /\ UNCHANGED <<interfaces, pc, control_mode, control_interfaces, control_chooser,
                   life, raising, klass, robot_pc, events>>

(* lines 110-111: disabled() of the mode that is active *)
Listener_exit ==
    /\ threads.listener.pc = "exit"
    /\ op' = ListenerOp
    /\ calls' = (IF control_mode # NoMode THEN <<Call(control_mode, "disabled")>> ELSE <<>>)
    /\ life' = AfterCalls(life, calls')
    /\ log' = <<>>
    /\ raised' = "none"
    /\ threads' = ListenerAt("assign")
    /\ UNCHANGED <<interfaces, pc, control_mode, control_interfaces, control_chooser,
                   raising, klass, robot_pc, events>>

(* line 112: the assignment *)
Listener_assign ==
    /\ threads.listener.pc = "assign"
    /\ op' = ListenerOp
    /\ control_mode' = Subscript(threads.listener.new_selected)
    /\ calls' = <<>>
    /\ log' = <<>>
    /\ raised' = "none"
    /\ threads' = ListenerAt("enter")
    /\ UNCHANGED <<interfaces, pc, control_interfaces, control_chooser, life,
                   raising, klass, robot_pc, events>>

(* lines 113-114: enabled() of the mode now active *)
Listener_enter ==
    /\ threads.listener.pc = "enter"
    /\ op' = ListenerOp
    /\ calls' = (IF control_mode # NoMode THEN <<Call(control_mode, "enabled")>> ELSE <<>>)
    /\ life' = AfterCalls(life, calls')
    /\ log' = <<>>
    /\ raised' = "none"
    /\ threads' = ListenerAt("idle")
    /\ UNCHANGED <<interfaces, pc, control_mode, control_interfaces, control_chooser,
                   raising, klass, robot_pc, events>>

(* line 99: if self.control_mode is not None *)
Periodic_test ==
    /\ pc = "ready"
    /\ threads.periodic = "idle"
    /\ op' = [name |-> "teleopPeriodic", isNone |-> TRUE, id |-> 0, prev |-> control_mode]
    /\ calls' = <<>>
    /\ log' = <<>>
    /\ raised' = "none"
    /\ threads' = [threads EXCEPT !.periodic =
                       IF control_mode # NoMode THEN "forward" ELSE "idle"]
    /\ UNCHANGED <<interfaces, pc, control_mode, control_interfaces, control_chooser,
                   life, raising, klass, robot_pc, events>>

(* line 100: self.control_mode is read again and its teleopPeriodic called; *)
(* the tick remembers what the lifecycle hooks of its target had seen      *)
Periodic_forward ==
    /\ threads.periodic = "forward"
    /\ op' = [name |-> "teleopPeriodic", isNone |-> TRUE, id |-> 0, prev |-> control_mode]
    /\ calls' = (IF control_mode # NoMode
                 THEN <<Call(control_mode, "teleopPeriodic")>> ELSE <<>>)
    /\ log' = <<>>
    /\ raised' = (IF control_mode # NoMode THEN "none" ELSE "AttributeError")
    /\ threads' = [threads EXCEPT
                       !.periodic = "idle",
                       !.tick = [mode |-> control_mode,
                                 life |-> IF control_mode # NoMode
                                          THEN life[control_mode] ELSE "none",
                                 onNone |-> control_mode = NoMode]]
    /\ UNCHANGED <<interfaces, pc, control_mode, control_interfaces, control_chooser,
                   life, raising, klass, robot_pc, events>>

----------------------------------------------------------------------------
(* Specifications *)

(* the manager is used directly: there is no decorated robot class *)
NoRobot ==
    /\ klass = [decorators |-> <<>>, setup |-> "none", members |-> <<>>]
    /\ robot_pc = "none"
    /\ events = [op |-> "none", trace |-> <<>>]
    /\ threads = NoCall

(* a manager over interfaces with the default _SORT, built and then driven *)
(* by the dashboard callback and the control loop                          *)
Init == Unconstructed(DefaultSortInputs) /\ raising = {} /\ NoRobot

Next ==
    \/ ControlManager_init /\ UNCHANGED rvars
    \/ teleopPeriodic /\ UNCHANGED rvars
    \/ \E sel \in Selections : control_mode_changed(sel) /\ UNCHANGED rvars

Spec == Init /\ [][Next]_vars

(* the constructor alone, over every argument tuple within the bounds *)
InitNew == Unconstructed(AllInputs) /\ raising = {} /\ NoRobot

NextNew == ControlManager_init /\ UNCHANGED rvars

SpecNew == InitNew /\ [][NextNew]_vars

(* the same manager over interface objects some of whose hooks raise *)
InitRaise == Unconstructed(DefaultSortInputs) /\ raising \in RaisingSets /\ NoRobot

NextRaise ==
    \/ ControlManager_init /\ UNCHANGED rvars
    \/ teleopPeriodic /\ UNCHANGED rvars
    \/ \E sel \in Selections : control_mode_changed(sel) /\ UNCHANGED rvars

SpecRaise == InitRaise /\ [][NextRaise]_vars

(* the manager with every event function of its docstring called on it *)
InitEvents == Unconstructed(DefaultSortInputs) /\ raising = {} /\ NoRobot

NextEvents ==
    \/ ControlManager_init /\ UNCHANGED rvars
    \/ \E name \in EventFunctions : event(name) /\ UNCHANGED rvars
    \/ \E sel \in Selections : control_mode_changed(sel) /\ UNCHANGED rvars

SpecEvents == InitEvents /\ [][NextEvents]_vars

(* a robot object of a decorated class; the manager's argument tuple is    *)
(* what the scan of its attributes finds                                   *)
InitRobot ==
    /\ klass \in RobotClasses
    /\ robot_pc = "declared"
    /\ events = [op |-> "none", trace |-> <<>>]
    /\ threads = NoCall
    /\ Unconstructed({Components(klass.members)})
    /\ raising = {}

NextRobot ==
    \/ Robot_robotInit
    \/ Robot_teleopPeriodic
    \/ \E sel \in Selections : Robot_control_mode_changed(sel)

SpecRobot == InitRobot /\ [][NextRobot]_vars

(* the selection callback on the listener thread, the tick on the control  *)
(* loop, interleaved between statements                                    *)
InitThreads == Unconstructed(DefaultSortInputs) /\ raising = {} /\ NoRobot

NextThreads ==
    \/ ControlManager_init /\ UNCHANGED rvars
    \/ \E sel \in Selections : Listener_getSelected(sel)
    \/ Listener_compare
    \/ Listener_exit
    \/ Listener_assign
    \/ Listener_enter
    \/ Periodic_test
    \/ Periodic_forward

SpecThreads == InitThreads /\ [][NextThreads]_vars

----------------------------------------------------------------------------
(* Vocabulary of the properties *)

Range(s) == {s[j] : j \in 1..Len(s)}

Modes == 1..Len(interfaces)

(* the selection id is the index of a registered mode *)
IsRegistryIndex(id) == id \in 0..(Len(control_interfaces) - 1)

ModeAt(id) == control_interfaces[id + 1]

(* the step is a selection-change notification carrying an id *)
SelectionStep == op'.name = "control_mode_changed" /\ ~op'.isNone

TickStep == op'.name = "teleopPeriodic"

(* the mode has a display name that is text *)
HasTextName(m) == interfaces[m].name.has /\ interfaces[m].name.isstr

Excluded == {m \in Modes : ~HasTextName(m)}

(* C1: with mode A active, a notification whose id is the index of a      *)
(* registered mode B # A calls exactly A.disabled() then B.enabled() and   *)
(* makes B active; every tick forwards to the active mode only and leaves  *)
(* it active, so the ticks after the change go to B alone.                 *)
C1_CleanTransition ==
    [][ /\ ( /\ SelectionStep
             /\ control_mode # NoMode
             /\ IsRegistryIndex(op'.id)
             /\ ModeAt(op'.id) # control_mode )
           => /\ calls' = <<Call(control_mode, "disabled"),
                            Call(ModeAt(op'.id), "enabled")>>
              /\ control_mode' = ModeAt(op'.id)
              /\ raised' = "none"
        /\ (TickStep /\ control_mode # NoMode)
           => /\ calls' = <<Call(control_mode, "teleopPeriodic")>>
              /\ control_mode' = control_mode
      ]_vars

(* a tick forwarded to the mode that a clean transition made active *)
C1_Witness ==
    /\ op.name = "teleopPeriodic"
    /\ control_mode # NoMode
    /\ calls = <<Call(control_mode, "teleopPeriodic")>>
    /\ \E m \in Modes : life[m] = "disabled"

(* C2: with mode A active, a notification whose id is the index of A      *)
(* calls no hook at all and leaves A active, however often it is repeated. *)
C2_IdempotentReselection ==
    [][ ( /\ SelectionStep
          /\ control_mode # NoMode
          /\ IsRegistryIndex(op'.id)
          /\ ModeAt(op'.id) = control_mode )
        => /\ calls' = <<>>
           /\ control_mode' = control_mode
           /\ life' = life
           /\ raised' = "none"
      ]_vars

(* the active mode was selected again, right after having been selected   *)
C2_Witness ==
    /\ op.name = "control_mode_changed"
    /\ ~op.isNone
    /\ IsRegistryIndex(op.id)
    /\ op.prev # NoMode
    /\ ModeAt(op.id) = op.prev
    /\ control_mode = op.prev
    /\ calls = <<>>

(* C3: every mode's enabled()/disabled() calls alternate, enabled() first; *)
(* the mode last enabled is exactly the active mode; a transition runs the *)
(* previous mode's disabled() before the new mode's enabled(), and leaves  *)
(* disabled() out only when no mode had been active.                       *)
C3_BalancedEnterExit ==
    /\ \A m \in Modes :
          /\ life[m] # "misordered"
          /\ (life[m] = "enabled") <=> (control_mode = m)
    /\ (op.name = "control_mode_changed" /\ calls # <<>>)
       => /\ calls = (IF op.prev # NoMode THEN <<Call(op.prev, "disabled")>> ELSE <<>>)
                     \o <<Call(control_mode, "enabled")>>
          /\ (op.prev = NoMode)
             => \A m \in Modes : m # control_mode => life[m] = "never"
    /\ (op.name # "control_mode_changed")
       => \A j \in 1..Len(calls) : calls[j].hook \notin {"enabled", "disabled"}

(* a third activation: one mode left, one left and entered again          *)
C3_Witness ==
    /\ op.name = "control_mode_changed"
    /\ Len(calls) = 2
    /\ \E m \in Modes : life[m] = "disabled"
    /\ \E m \in Modes : m # op.prev /\ life[m] = "enabled"

(* C4: for every id that is not the index of a registered mode, the        *)
(* handler leaves the active mode alone, calls no hook, logs exactly one   *)
(* error and does not raise.                                               *)
C4_InvalidSelection ==
    ( /\ op.name = "control_mode_changed"
      /\ ~op.isNone
      /\ ~IsRegistryIndex(op.id) )
    => /\ control_mode = op.prev
       /\ calls = <<>>
       /\ Len(log) = 1
       /\ raised = "none"

(* C5: the constructor leaves no mode active and calls no hook; while no   *)
(* mode is active a tick calls nothing; a mode becomes active only through *)
(* a selection-change notification, and it is a registered mode.           *)
C5_NoPrematureActivation ==
    [][ /\ (op'.name = "__init__")
           => /\ control_mode' = NoMode
              /\ calls' = <<>>
              /\ \A m \in Modes : life'[m] = "never"
        /\ (TickStep /\ control_mode = NoMode)
           => /\ calls' = <<>>
              /\ control_mode' = NoMode
        /\ (control_mode = NoMode /\ control_mode' # NoMode)
           => /\ SelectionStep
              /\ control_mode' \in Range(control_interfaces)
      ]_vars

(* a tick on a manager with registered modes, none of them selected yet   *)
C5_Witness ==
    /\ op.name = "teleopPeriodic"
    /\ control_mode = NoMode
    /\ control_interfaces # <<>>
    /\ calls = <<>>

(* C6: a constructed manager has a non-empty registry; the constructor    *)
(* raises when given no mode and when every given mode fails validation.   *)
C6_NonEmptyRegistry ==
    /\ (pc = "ready") => control_interfaces # <<>>
    /\ (op.name = "__init__" /\ Excluded = Modes) => pc = "failed"

(* C7: after construction with at least one valid mode, the first          *)
(* registration is the only addDefault and belongs to the first mode of    *)
(* the registry; every other surviving mode is an addObject.               *)
C7_DefaultFlag ==
    (pc = "ready" /\ Excluded # Modes)
    => /\ Len(control_chooser) = Len(control_interfaces)
       /\ control_chooser[1].call = "addDefault"
       /\ control_chooser[1].label = interfaces[control_interfaces[1]].name.text
       /\ \A j \in 2..Len(control_chooser) : control_chooser[j].call = "addObject"

(* C8: the registry is the priority-sorted input with the modes lacking a  *)
(* text display name left out; each of those is logged once; a non-empty   *)
(* input never makes the constructor fail.                                 *)
C8_PartialValidation ==
    (op.name = "__init__" /\ interfaces # <<>>)
    => /\ pc = "ready"
       /\ raised = "none"
       /\ control_interfaces = SelectSeq(sorted_interfaces, HasTextName)
       /\ Len(log) = Cardinality(Excluded)
       /\ \A m \in Excluded : \E j \in 1..Len(log) : log[j].mode = m

(* a valid mode, an invalid one and another valid one: two survive         *)
C8_Witness ==
    /\ pc = "ready"
    /\ Len(interfaces) = 3
    /\ Excluded = {2}
    /\ Len(control_interfaces) = 2
    /\ Len(log) = 1

(* C9: the registry holds each valid input mode once, priorities never     *)
(* increasing, equal priorities in argument order; priorities [3,1,3,0]   *)
(* come out as mode0, mode2, mode1, mode3.                                 *)
C9_PriorityOrdering ==
    /\ (pc = "ready")
       => /\ Range(control_interfaces) = Modes \ Excluded
          /\ Len(control_interfaces) = Cardinality(Modes \ Excluded)
          /\ \A i, j \in 1..Len(control_interfaces) :
                i < j => \/ interfaces[control_interfaces[i]].sort
                            > interfaces[control_interfaces[j]].sort
                         \/ /\ interfaces[control_interfaces[i]].sort
                               = interfaces[control_interfaces[j]].sort
                            /\ control_interfaces[i] < control_interfaces[j]
    /\ sorted_reverse(<<3, 1, 3, 0>>) = <<1, 3, 2, 4>>

(* a tie placed around a lower priority: the order has to change and the   *)
(* tie has to keep its argument order                                      *)
C9_Witness ==
    /\ pc = "ready"
    /\ Len(control_interfaces) = 3
    /\ interfaces[1].sort = interfaces[3].sort
    /\ interfaces[2].sort < interfaces[1].sort
    /\ control_interfaces = <<1, 3, 2>>

(* C10: once a mode is active, the active mode is never none again and     *)
(* stays a member of the registry.                                         *)
C10_NoDeselect ==
    [][ (control_mode # NoMode)
        => /\ control_mode' # NoMode
           /\ control_mode' \in Range(control_interfaces') ]_vars

(* an active mode survives an unset report, a rejected id and a reselect   *)
C10_Witness ==
    /\ op.name = "control_mode_changed"
    /\ op.prev # NoMode
    /\ control_mode = op.prev
    /\ log # <<>>

(* C11: when B.enabled() raises during a change to B, the caller sees the  *)
(* failure and B is the active mode; with such a B active, a tick forwards *)
(* to B, selecting B again calls nothing, and selecting another mode C     *)
(* calls B.disabled() and then C.enabled().                                *)
C11_FailingEnter ==
    [][ /\ ( /\ SelectionStep
             /\ IsRegistryIndex(op'.id)
             /\ ModeAt(op'.id) # control_mode
             /\ Call(ModeAt(op'.id), "enabled") \in raising
             /\ (control_mode # NoMode => Call(control_mode, "disabled") \notin raising) )
           => /\ raised' = "HookError"
              /\ control_mode' = ModeAt(op'.id)
              /\ calls'[Len(calls')] = Call(ModeAt(op'.id), "enabled")
        /\ (control_mode # NoMode /\ Call(control_mode, "enabled") \in raising)
           => /\ TickStep => calls' = <<Call(control_mode, "teleopPeriodic")>>
              /\ (SelectionStep /\ IsRegistryIndex(op'.id)
                    /\ ModeAt(op'.id) = control_mode)
                 => (calls' = <<>> /\ control_mode' = control_mode)
              /\ (SelectionStep /\ IsRegistryIndex(op'.id)
                    /\ ModeAt(op'.id) # control_mode
                    /\ Call(control_mode, "disabled") \notin raising
                    /\ Call(ModeAt(op'.id), "enabled") \notin raising)
                 => /\ calls' = <<Call(control_mode, "disabled"),
                                  Call(ModeAt(op'.id), "enabled")>>
                    /\ control_mode' = ModeAt(op'.id)
      ]_vars

(* a mode whose enabled() raised was left for another one: B.disabled()    *)
(* and C.enabled() ran                                                     *)
C11_Witness ==
    /\ op.name = "control_mode_changed"
    /\ op.prev # NoMode
    /\ Call(op.prev, "enabled") \in raising
    /\ control_mode # op.prev
    /\ calls = <<Call(op.prev, "disabled"), Call(control_mode, "enabled")>>
    /\ raised = "none"

(* C12: when A.disabled() raises during a change from A to B, the caller   *)
(* sees the failure and the active mode afterwards is B.                   *)
C12_FailingExit ==
    ( /\ op.name = "control_mode_changed"
      /\ ~op.isNone
      /\ IsRegistryIndex(op.id)
      /\ op.prev # NoMode
      /\ ModeAt(op.id) # op.prev
      /\ Call(op.prev, "disabled") \in raising )
    => /\ raised = "HookError"
       /\ control_mode = ModeAt(op.id)

(* C13: a tick calls teleopPeriodic() once on the active mode and on no    *)
(* other, calls no enabled()/disabled(), and leaves the active mode, the   *)
(* registry and the chooser as they were; with no active mode it calls     *)
(* nothing.                                                                *)
C13_TickForwarding ==
    [][ TickStep
        => /\ calls' = (IF control_mode # NoMode
                        THEN <<Call(control_mode, "teleopPeriodic")>>
                        ELSE <<>>)
           /\ control_mode' = control_mode
           /\ control_interfaces' = control_interfaces
           /\ control_chooser' = control_chooser
           /\ life' = life
           /\ log' = <<>>
      ]_vars

(* a tick with one of several registered modes active, after a transition *)
C13_Witness ==
    /\ op.name = "teleopPeriodic"
    /\ Len(control_interfaces) >= 2
    /\ control_mode # NoMode
    /\ calls = <<Call(control_mode, "teleopPeriodic")>>
    /\ \E m \in Modes : m # control_mode /\ life[m] = "disabled"

(* C14: a notification while the chooser reports no selection changes      *)
(* nothing, in any state: same active mode, no hook called, nothing        *)
(* logged, nothing raised.                                                 *)
C14_UnsetSelection ==
    [][ (op'.name = "control_mode_changed" /\ op'.isNone)
        => /\ control_mode' = control_mode
           /\ calls' = <<>>
           /\ life' = life
           /\ log' = <<>>
           /\ raised' = "none"
           /\ control_interfaces' = control_interfaces
      ]_vars

(* an unset report reached a manager that has a mode active               *)
C14_Witness ==
    /\ op.name = "control_mode_changed"
    /\ op.isNone
    /\ op.prev # NoMode
    /\ control_mode = op.prev
    /\ calls = <<>>
    /\ log = <<>>

(* C17: every event function of the docstring, called on a constructed     *)
(* manager, is forwarded to the active interface and to no other.          *)
C17_EventForwarding ==
    (pc = "ready" /\ op.name \in EventFunctions /\ control_mode # NoMode)
    => /\ calls = <<Call(control_mode, op.name)>>
       /\ raised = "none"

(* C18: a mode whose display name is the empty string is left out of the   *)
(* registry and of the chooser, like one without a text display name.      *)
C18_EmptyNameRejected ==
    (pc = "ready")
    => /\ \A m \in Modes :
             interfaces[m].name = StrName("") => m \notin Range(control_interfaces)
       /\ \A j \in 1..Len(control_chooser) : control_chooser[j].label # ""

(* C19: each surviving mode is registered under its index in the registry, *)
(* so a notification carrying a registered id activates the mode that was  *)
(* registered under it and is never rejected.                              *)
C19_LabelIdConsistency ==
    (pc = "ready")
    => /\ \A j \in 1..Len(control_chooser) : control_chooser[j].id = j - 1
       /\ (op.name = "control_mode_changed" /\ ~op.isNone)
          => \A j \in 1..Len(control_chooser) :
                control_chooser[j].id = op.id
                => (control_mode = control_interfaces[j] /\ log = <<>>)

(* the attributes a reader of the class calls its control interfaces:      *)
(* public, plain attributes holding a ControlInterface object              *)
PublicInterfaces ==
    SelectSeq(klass.members,
              LAMBDA mem : mem.value = "interface" /\ ~mem.underscore /\ ~mem.isproperty)

Decorated(d) == \E j \in 1..Len(klass.decorators) : klass.decorators[j] = d

Count(trace, e) == Cardinality({j \in 1..Len(trace) : trace[j] = e})

Before(trace, a, b) ==
    \A i, j \in 1..Len(trace) : (trace[i] = a /\ trace[j] = b) => i < j

(* C15: with with_ctrl_manager, robotInit runs the class's own robotInit   *)
(* once and then builds the manager once, from the public ControlInterface *)
(* attributes; afterwards a teleopPeriodic call ticks the manager once,    *)
(* which forwards to the active interface, and then runs the class's own   *)
(* teleopPeriodic once.                                                    *)
C15_DecoratorOrdering ==
    Decorated("with_ctrl_manager")
    => /\ (events.op = "robotInit" /\ PublicInterfaces # <<>>)
          => /\ Count(events.trace, "robotInit") = 1
             /\ Count(events.trace, "ControlManager") = 1
             /\ Before(events.trace, "robotInit", "ControlManager")
             /\ pc = "ready"
             /\ Len(interfaces) = Len(PublicInterfaces)
             /\ \A j \in 1..Len(interfaces) :
                   interfaces[j].name.has = PublicInterfaces[j].named
       /\ (events.op = "teleopPeriodic")
          => /\ events.trace = <<"ControlManager.teleopPeriodic", "teleopPeriodic">>
             /\ op.name = "teleopPeriodic"
             /\ calls = (IF control_mode # NoMode
                         THEN <<Call(control_mode, "teleopPeriodic")>>
                         ELSE <<>>)

(* a tick of a decorated robot whose manager has a mode active             *)
C15_Witness ==
    /\ Decorated("with_ctrl_manager")
    /\ events.op = "teleopPeriodic"
    /\ control_mode # NoMode
    /\ Len(klass.members) > Len(interfaces)
    /\ events.trace = <<"ControlManager.teleopPeriodic", "teleopPeriodic">>

(* the robotInit that provide_setup wrapped raises: it is the one of       *)
(* with_ctrl_manager and finds no component                                *)
WrappedRobotInitRaises ==
    /\ klass.decorators = <<"with_ctrl_manager", "provide_setup">>
    /\ PublicInterfaces = <<>>

(* C16: with provide_setup, a robotInit call runs the wrapped robotInit    *)
(* and, once it has returned, calls setup() exactly once; when the class   *)
(* defines no setup() a warning is logged instead, setup() is not called   *)
(* and provide_setup's robotInit does not raise.                           *)
C16_ProvideSetup ==
    ( /\ Decorated("provide_setup")
      /\ events.op = "robotInit"
      /\ ~WrappedRobotInitRaises )
    => /\ Count(events.trace, "robotInit") = 1
       /\ IF klass.setup = "class"
          THEN /\ Count(events.trace, "setup") = 1
               /\ Count(events.trace, "logger.warning") = 0
               /\ Before(events.trace, "robotInit", "setup")
          ELSE /\ Count(events.trace, "setup") = 0
               /\ Count(events.trace, "logger.warning") = 1
               /\ Before(events.trace, "robotInit", "logger.warning")
       /\ (klass.decorators[Len(klass.decorators)] = "provide_setup")
          => robot_pc = "inited"

(* setup() ran behind a robotInit that also built the manager              *)
C16_Witness ==
    /\ events.op = "robotInit"
    /\ klass.setup = "class"
    /\ events.trace = <<"robotInit", "ControlManager", "setup">>
    /\ robot_pc = "inited"

(* C20: with the selection callback and teleopPeriodic interleaved between *)
(* statements, a forwarded tick goes to a mode that has had enabled() and  *)
(* has not had disabled() since, and teleopPeriodic never calls through a  *)
(* control_mode that is None.                                              *)
C20_TickInsideWindow ==
    /\ threads.tick.mode # NoMode => threads.tick.life = "enabled"
    /\ ~threads.tick.onNone

====
